---- MODULE Spec2Model ----
(***************************************************************************)
(* qa_tools.plot.plot_working_graph: the defect-detection and colouring    *)
(* pipeline of src/qa_tools/plot.py, with the pyplot figure registry and   *)
(* the file system it acts on.                                             *)
(*                                                                         *)
(* Graphs are networkx Graphs: `node` is the key order of Graph._node and  *)
(* `adj[n]` the key order of Graph._adj[n].  The lattice graph_func builds *)
(* from the topology shape is carried by the sampler record as `lattice`.  *)
(* figsize only sizes the figure and is left out; layout and rasterising   *)
(* are the drawing library's and are not modelled.                         *)
(*                                                                         *)
(* Spec      runs whole invocations, one after another, on the example     *)
(*           lattice of the specification (path 1-2-3).                    *)
(* SpecDiff  runs lines 52-64 on every bounded pair of lattice and working *)
(*           graph.                                                        *)
(***************************************************************************)
EXTENDS Integers, Sequences, FiniteSets, TLC

VARIABLES
    pc,             \* position inside plot_working_graph ("idle" between calls)
    sampler,        \* argument: [type, lattice, chip_id, graph]
    out_path,       \* argument: a path (sequence of components), NoPath models None
    ng_color,       \* argument
    ok_color,       \* argument
    draw_rectangle, \* argument
    graph_func,     \* local, line 43/46
    draw_func,      \* local, line 44/47
    G,              \* local, line 52
    T,              \* local, line 53
    error_node,     \* local, line 55
    node_color,     \* local, line 56
    error_edge,     \* local, line 58
    edge_color,     \* local, line 59
    figs,           \* pyplot's open figures, oldest first; the last one is current
    dirs,           \* directories that exist
    files,          \* image files that exist
    effects,        \* calls into pyplot / os made by the current invocation
    result,         \* how the last invocation ended
    calls           \* number of invocations started so far

vars == <<pc, sampler, out_path, ng_color, ok_color, draw_rectangle, graph_func,
          draw_func, G, T, error_node, node_color, error_edge, edge_color,
          figs, dirs, files, effects, result, calls>>

args == <<sampler, out_path, ng_color, ok_color, draw_rectangle>>
locals == <<graph_func, draw_func, G, T, error_node, node_color, error_edge, edge_color>>
world == <<figs, dirs, files>>

----------------------------------------------------------------------------
(* Bounds *)

\* longest edge list a generated graph is built from
MaxEdges == 2
\* invocations in one run of the pipeline model
MaxCalls == 2

\* node identifiers of the generated graphs are 1 .. MaxNode
MaxNode == 3

NodeIds == 1 .. MaxNode

Range(s) == {s[i] : i \in DOMAIN s}

----------------------------------------------------------------------------
(* networkx.Graph *)

EmptyGraph == [node |-> <<>>, adj |-> <<>>]

HasNode(g, n) == n \in Range(g.node)

\* Graph.add_node: a new key at the end of _node, with an empty _adj entry
AddNode(g, n) ==
    IF HasNode(g, n) THEN g
    ELSE [node |-> Append(g.node, n), adj |-> g.adj @@ (n :> <<>>)]

\* dict insertion: an existing key keeps its place
Insert(s, x) == IF x \in Range(s) THEN s ELSE Append(s, x)

\* Graph.add_edge: both endpoints become nodes, both adjacency entries are set
AddEdge(g, u, v) ==
    LET g1 == AddNode(AddNode(g, u), v)
        a1 == [g1.adj EXCEPT ![u] = Insert(@, v)]
        a2 == [a1 EXCEPT ![v] = Insert(@, u)]
    IN  [node |-> g1.node, adj |-> a2]

RECURSIVE AddNodesFrom(_, _)
AddNodesFrom(g, nodelist) ==
    IF nodelist = <<>> THEN g
    ELSE AddNodesFrom(AddNode(g, Head(nodelist)), Tail(nodelist))

RECURSIVE AddEdgesFrom(_, _)
AddEdgesFrom(g, edgelist) ==
    IF edgelist = <<>> THEN g
    ELSE AddEdgesFrom(AddEdge(g, Head(edgelist)[1], Head(edgelist)[2]), Tail(edgelist))

MkGraph(nodelist, edgelist) ==
    AddEdgesFrom(AddNodesFrom(EmptyGraph, nodelist), edgelist)

\* iter(Graph.nodes()): the keys of _node in insertion order
NodeIter(g) == g.node

\* v in Graph.nodes()
NodeContains(g, n) == HasNode(g, n)

\* EdgeView.__iter__: each edge once, from the endpoint met first
EdgesFrom(g, n, seen) ==
    LET nbrs == g.adj[n]
        keep == SelectSeq(nbrs, LAMBDA nbr : nbr \notin seen)
    IN  [i \in 1 .. Len(keep) |-> <<n, keep[i]>>]

RECURSIVE EdgeIterFrom(_, _)
EdgeIterFrom(g, i) ==
    IF i > Len(g.node) THEN <<>>
    ELSE EdgesFrom(g, g.node[i], {g.node[j] : j \in 1 .. (i - 1)})
            \o EdgeIterFrom(g, i + 1)

EdgeIter(g) == EdgeIterFrom(g, 1)

\* EdgeView.__contains__: either orientation, a missing endpoint is "not there"
EdgeContains(g, e) ==
    \/ HasNode(g, e[1]) /\ e[2] \in Range(g.adj[e[1]])
    \/ HasNode(g, e[2]) /\ e[1] \in Range(g.adj[e[2]])

----------------------------------------------------------------------------
(* The computations of plot_working_graph *)

TopologyTypes == {"chimera", "pegasus", "zephyr"}
ChipIds == {"DW_2000Q_6", "Advantage_system4.1"}
RectangleChip == "DW_2000Q_6"

Unset == "unset"

\* line 49: raise ValueError(f"support chimera or pegasus, unsupported ...")
TopologyError == "ValueError: unsupported topology"
\* line 69: raise ValueError(f"support DW_2000Q_6, unsupported ...")
ChipError == "ValueError: unsupported chip_id"

\* mutant: the operands of the node subtraction swapped
NodesMinusSwapped(t, g) == {v \in Range(NodeIter(g)) : ~NodeContains(t, v)}

\* mutant: edges subtracted as plain sets of tuples, set(T.edges()) - set(G.edges())
EdgesMinusTuples(t, g) == {e \in Range(EdgeIter(t)) : e \notin Range(EdgeIter(g))}

\* mutant: only edges between two working nodes are compared
EdgesMinusInduced(t, g) ==
    {e \in Range(EdgeIter(t)) :
        NodeContains(g, e[1]) /\ NodeContains(g, e[2]) /\ ~EdgeContains(g, e)}

\* mutant: the colour list built back to front
RECURSIVE ColorListReversed(_, _, _, _)
ColorListReversed(items, errors, ng, ok) ==
    IF items = <<>> THEN <<>>
    ELSE ColorListReversed(Tail(items), errors, ng, ok)
            \o <<IF Head(items) \in errors THEN ng ELSE ok>>

\* set(T.nodes() - G.nodes()): Set.__sub__ keeps the values of T's view that
\* G's view does not contain
NodesMinus(t, g) == {v \in Range(NodeIter(t)) : ~NodeContains(g, v)}

\* set(T.edges() - G.edges()): T's tuples, as T enumerates them, that
\* G's EdgeView does not contain
EdgesMinus(t, g) == {e \in Range(EdgeIter(t)) : ~EdgeContains(g, e)}

\* [ng_color if x in errors else ok_color for x in items]
RECURSIVE ColorList(_, _, _, _)
ColorList(items, errors, ng, ok) ==
    IF items = <<>> THEN <<>>
    ELSE <<IF Head(items) \in errors THEN ng ELSE ok>>
            \o ColorList(Tail(items), errors, ng, ok)

\* draw_func(T, node_color=, edge_color=, node_size=1, ax=ax): networkx draws
\* list(T) and list(T.edges()), taking the i-th colour for the i-th element
DrawCall(t, nc, ec) ==
    [nodes |-> [i \in 1 .. Len(NodeIter(t)) |-> <<NodeIter(t)[i], nc[i]>>],
     edges |-> [i \in 1 .. Len(EdgeIter(t)) |-> <<EdgeIter(t)[i], ec[i]>>]]

----------------------------------------------------------------------------
(* pyplot and the file system *)

BlankFigure == [axes |-> FALSE, drawn |-> <<>>, patches |-> <<>>]

Current == figs[Len(figs)]

SetCurrent(f) == [figs EXCEPT ![Len(figs)] = f]

\* plt.clf(): gcf().clear(); gcf() opens a figure when none is open
Clf == IF figs = <<>> THEN <<BlankFigure>> ELSE SetCurrent(BlankFigure)

NoPath == <<>>
OutPaths == {NoPath, <<"fig.png">>, <<"out", "fig.png">>}

\* Path(out_path).parent
Parent(p) == SubSeq(p, 1, Len(p) - 1)

\* os.makedirs(d, exist_ok=True): d and every missing ancestor
MakeDirs(d) == dirs \cup {SubSeq(d, 1, k) : k \in 0 .. Len(d)}

----------------------------------------------------------------------------
(* Inputs *)

RECURSIVE SortedSeq(_)
SortedSeq(S) ==
    IF S = {} THEN <<>>
    ELSE LET m == CHOOSE x \in S : \A y \in S : x <= y
         IN  <<m>> \o SortedSeq(S \ {m})

\* sorted(pairs): by first component, then by second
RECURSIVE SortedPairs(_)
SortedPairs(S) ==
    IF S = {} THEN <<>>
    ELSE LET m == CHOOSE x \in S : \A y \in S :
                      x[1] < y[1] \/ (x[1] = y[1] /\ x[2] <= y[2])
         IN  <<m>> \o SortedPairs(S \ {m})

Pairs == {<<u, v>> : u \in NodeIds, v \in NodeIds} \ {<<u, u>> : u \in NodeIds}

EdgeLists == UNION {[1 .. n -> Pairs] : n \in 0 .. MaxEdges}

\* what graph_func(*shape) can return
Lattices == {MkGraph(<<>>, el) : el \in EdgeLists}

\* what sampler.to_networkx_graph() can return
\* sampler.edgelist holds each working coupler once, smaller qubit first
EdgeSets == {es \in SUBSET {p \in Pairs : p[1] < p[2]} : Cardinality(es) <= MaxEdges}

WorkingGraphs ==
    {MkGraph(SortedSeq(ns), SortedPairs(es)) : ns \in SUBSET NodeIds, es \in EdgeSets}

ExampleLattice == MkGraph(<<>>, <<<<1, 2>>, <<2, 3>>>>)
ExampleWorking ==
    { MkGraph(<<1, 2, 3>>, <<<<1, 2>>, <<2, 3>>>>),
      MkGraph(<<1, 3>>, <<>>) }

----------------------------------------------------------------------------
(* plot_working_graph, step by step *)

Init ==
    /\ pc = "idle"
    /\ sampler = [type |-> Unset, lattice |-> EmptyGraph, chip_id |-> Unset,
                  graph |-> EmptyGraph]
    /\ out_path = NoPath
    /\ ng_color = "red"
    /\ ok_color = "blue"
    /\ draw_rectangle = FALSE
    /\ graph_func = Unset
    /\ draw_func = Unset
    /\ G = EmptyGraph
    /\ T = EmptyGraph
    /\ error_node = {}
    /\ node_color = <<>>
    /\ error_edge = {}
    /\ edge_color = <<>>
    /\ figs = <<>>
    /\ dirs = {<<>>}
    /\ files = {}
    /\ effects = <<>>
    /\ result = "none"
    /\ calls = 0

ResetLocals ==
    /\ graph_func' = Unset
    /\ draw_func' = Unset
    /\ G' = EmptyGraph
    /\ T' = EmptyGraph
    /\ error_node' = {}
    /\ node_color' = <<>>
    /\ error_edge' = {}
    /\ edge_color' = <<>>

\* line 13: plot_working_graph(sampler, out_path, figsize, ng_color, ok_color, draw_rectangle)
Call ==
    /\ pc = "idle"
    /\ calls < MaxCalls
    /\ \E ty \in TopologyTypes, chip \in ChipIds, g \in ExampleWorking :
          sampler' = [type |-> ty, lattice |-> ExampleLattice, chip_id |-> chip,
                      graph |-> g]
    /\ out_path' \in OutPaths
    /\ draw_rectangle' \in BOOLEAN
    /\ ng_color' = "red"
    /\ ok_color' = "blue"
    /\ ResetLocals
    /\ effects' = <<>>
    /\ result' = "running"
    /\ calls' = calls + 1
    /\ pc' = "select"
    /\ UNCHANGED world

\* mutant: an unrecognised topology type falls back to chimera
SelectTopologyDefault ==
    /\ pc = "select"
    /\ \/ /\ sampler.type # "pegasus"
          /\ graph_func' = "chimera_graph"
          /\ draw_func' = "draw_chimera"
       \/ /\ sampler.type = "pegasus"
          /\ graph_func' = "pegasus_graph"
          /\ draw_func' = "draw_pegasus"
    /\ pc' = "graphs"
    /\ UNCHANGED <<args, G, T, error_node, node_color, error_edge, edge_color,
                   world, effects, result, calls>>

\* mutant: the chip_id check of the rectangle is made first
SelectTopologyChipFirst ==
    /\ pc = "select"
    /\ \/ /\ draw_rectangle
          /\ sampler.chip_id # RectangleChip
          /\ result' = ChipError
          /\ pc' = "idle"
          /\ UNCHANGED <<graph_func, draw_func>>
       \/ /\ ~(draw_rectangle /\ sampler.chip_id # RectangleChip)
          /\ sampler.type = "chimera"
          /\ graph_func' = "chimera_graph"
          /\ draw_func' = "draw_chimera"
          /\ pc' = "graphs"
          /\ UNCHANGED result
       \/ /\ ~(draw_rectangle /\ sampler.chip_id # RectangleChip)
          /\ sampler.type = "pegasus"
          /\ graph_func' = "pegasus_graph"
          /\ draw_func' = "draw_pegasus"
          /\ pc' = "graphs"
          /\ UNCHANGED result
       \/ /\ ~(draw_rectangle /\ sampler.chip_id # RectangleChip)
          /\ sampler.type # "chimera"
          /\ sampler.type # "pegasus"
          /\ result' = TopologyError
          /\ pc' = "idle"
          /\ UNCHANGED <<graph_func, draw_func>>
    /\ UNCHANGED <<args, G, T, error_node, node_color, error_edge, edge_color,
                   world, effects, calls>>

\* lines 41-49
SelectTopology ==
    /\ pc = "select"
    /\ \/ /\ sampler.type = "chimera"
          /\ graph_func' = "chimera_graph"
          /\ draw_func' = "draw_chimera"
          /\ pc' = "graphs"
          /\ UNCHANGED result
       \/ /\ sampler.type # "chimera"
          /\ sampler.type = "pegasus"
          /\ graph_func' = "pegasus_graph"
          /\ draw_func' = "draw_pegasus"
          /\ pc' = "graphs"
          /\ UNCHANGED result
       \/ /\ sampler.type # "chimera"
          /\ sampler.type # "pegasus"
          /\ result' = TopologyError
          /\ pc' = "idle"
          /\ UNCHANGED <<graph_func, draw_func>>
    /\ UNCHANGED <<args, G, T, error_node, node_color, error_edge, edge_color,
                   world, effects, calls>>

\* lines 52-53
LoadGraphs ==
    /\ pc = "graphs"
    /\ G' = sampler.graph
    /\ T' = sampler.lattice
    /\ pc' = "error_node"
    /\ UNCHANGED <<args, graph_func, draw_func, error_node, node_color, error_edge,
                   edge_color, world, effects, result, calls>>

\* line 55
DiffNodes ==
    /\ pc = "error_node"
    /\ error_node' = NodesMinus(T, G)
    /\ pc' = "node_color"
    /\ UNCHANGED <<args, graph_func, draw_func, G, T, node_color, error_edge,
                   edge_color, world, effects, result, calls>>

\* mutant: the colours are listed for the nodes of both graphs, T's first
ColorNodesUnion ==
    /\ pc = "node_color"
    /\ node_color' = ColorList(
            NodeIter(T) \o SelectSeq(NodeIter(G), LAMBDA v : ~NodeContains(T, v)),
            error_node, ng_color, ok_color)
    /\ pc' = "error_edge"
    /\ UNCHANGED <<args, graph_func, draw_func, G, T, error_node, error_edge,
                   edge_color, world, effects, result, calls>>

\* line 56
ColorNodes ==
    /\ pc = "node_color"
    /\ node_color' = ColorList(NodeIter(T), error_node, ng_color, ok_color)
    /\ pc' = "error_edge"
    /\ UNCHANGED <<args, graph_func, draw_func, G, T, error_node, error_edge,
                   edge_color, world, effects, result, calls>>

\* line 58
DiffEdges ==
    /\ pc = "error_edge"
    /\ error_edge' = EdgesMinus(T, G)
    /\ pc' = "edge_color"
    /\ UNCHANGED <<args, graph_func, draw_func, G, T, error_node, node_color,
                   edge_color, world, effects, result, calls>>

\* line 59
ColorEdges ==
    /\ pc = "edge_color"
    /\ edge_color' = ColorList(EdgeIter(T), error_edge, ng_color, ok_color)
    /\ pc' = "figure"
    /\ UNCHANGED <<args, graph_func, draw_func, G, T, error_node, node_color,
                   error_edge, world, effects, result, calls>>

\* lines 62-63: plt.figure(figsize=figsize); ax = plt.axes()
NewFigure ==
    /\ pc = "figure"
    /\ figs' = Append(figs, [BlankFigure EXCEPT !.axes = TRUE])
    /\ effects' = effects \o <<"figure", "axes">>
    /\ pc' = "draw"
    /\ UNCHANGED <<args, locals, dirs, files, result, calls>>

\* line 64
Draw ==
    /\ pc = "draw"
    /\ figs' = SetCurrent([Current EXCEPT
                    !.drawn = Append(@, DrawCall(T, node_color, edge_color))])
    /\ effects' = Append(effects, "draw")
    /\ pc' = "annotate"
    /\ UNCHANGED <<args, locals, dirs, files, result, calls>>

\* mutant: the rectangle is drawn for any chip_id
AnnotateAnyChip ==
    /\ pc = "annotate"
    /\ \/ /\ ~draw_rectangle
          /\ UNCHANGED <<figs, effects>>
       \/ /\ draw_rectangle
          /\ figs' = SetCurrent([Current EXCEPT !.patches = Append(@, "Rectangle")])
          /\ effects' = Append(effects, "add_patch")
    /\ pc' = "output"
    /\ UNCHANGED <<args, locals, dirs, files, result, calls>>

\* lines 66-73
Annotate ==
    /\ pc = "annotate"
    /\ \/ /\ ~draw_rectangle
          /\ pc' = "output"
          /\ UNCHANGED <<figs, effects, result>>
       \/ /\ draw_rectangle
          /\ sampler.chip_id # RectangleChip
          /\ result' = ChipError
          /\ pc' = "idle"
          /\ UNCHANGED <<figs, effects>>
       \/ /\ draw_rectangle
          /\ sampler.chip_id = RectangleChip
          /\ figs' = SetCurrent([Current EXCEPT !.patches = Append(@, "Rectangle")])
          /\ effects' = Append(effects, "add_patch")
          /\ pc' = "output"
          /\ UNCHANGED result
    /\ UNCHANGED <<args, locals, dirs, files, calls>>

\* mutant: the figure is always shown, and saved as well when a path is given
OutputShowThenSave ==
    /\ pc = "output"
    /\ \/ /\ out_path = NoPath
          /\ effects' = Append(effects, "show")
          /\ UNCHANGED <<dirs, files>>
       \/ /\ out_path # NoPath
          /\ dirs' = MakeDirs(Parent(out_path))
          /\ files' = files \cup {out_path}
          /\ effects' = effects \o <<"show", "makedirs", "savefig">>
    /\ pc' = "clear"
    /\ UNCHANGED <<args, locals, figs, result, calls>>

\* lines 75-79
Output ==
    /\ pc = "output"
    /\ \/ /\ out_path = NoPath
          \* plt.show(): returns with the figures still open (non-blocking or
          \* non-GUI backend) or after the user closed every window
          /\ figs' \in {figs, <<>>}
          /\ effects' = Append(effects, "show")
          /\ UNCHANGED <<dirs, files>>
       \/ /\ out_path # NoPath
          /\ dirs' = MakeDirs(Parent(out_path))
          /\ files' = files \cup {out_path}
          /\ effects' = effects \o <<"makedirs", "savefig">>
          /\ UNCHANGED figs
    /\ pc' = "clear"
    /\ UNCHANGED <<args, locals, result, calls>>

\* line 81
Clear ==
    /\ pc = "clear"
    /\ figs' = Clf
    /\ effects' = Append(effects, "clf")
    /\ result' = "returned"
    /\ pc' = "idle"
    /\ UNCHANGED <<args, locals, dirs, files, calls>>

Next ==
    \/ Call
    \/ SelectTopology
    \/ LoadGraphs
    \/ DiffNodes
    \/ ColorNodes
    \/ DiffEdges
    \/ ColorEdges
    \/ NewFigure
    \/ Draw
    \/ Annotate
    \/ Output
    \/ Clear

Spec == Init /\ [][Next]_vars

----------------------------------------------------------------------------
(* The defect and colour computation on every bounded pair of graphs *)

InitDiff ==
    /\ pc = "graphs"
    /\ \E t \in Lattices, g \in WorkingGraphs :
          sampler = [type |-> "chimera", lattice |-> t, chip_id |-> RectangleChip,
                     graph |-> g]
    /\ graph_func = "chimera_graph"
    /\ draw_func = "draw_chimera"
    /\ out_path = NoPath
    /\ ng_color = "red"
    /\ ok_color = "blue"
    /\ draw_rectangle = FALSE
    /\ G = EmptyGraph
    /\ T = EmptyGraph
    /\ error_node = {}
    /\ node_color = <<>>
    /\ error_edge = {}
    /\ edge_color = <<>>
    /\ figs = <<>>
    /\ dirs = {<<>>}
    /\ files = {}
    /\ effects = <<>>
    /\ result = "running"
    /\ calls = 1

NextDiff ==
    \/ LoadGraphs
    \/ DiffNodes
    \/ ColorNodes
    \/ DiffEdges
    \/ ColorEdges
    \/ NewFigure
    \/ Draw

SpecDiff == InitDiff /\ [][NextDiff]_vars

----------------------------------------------------------------------------
(* Readings of a graph as plain sets, for the properties below *)

NodeSet(g) == {g.node[i] : i \in DOMAIN g.node}

\* an edge as an unordered pair
Und(e) == {e[1], e[2]}

\* the edges of g: the pairs some adjacency entry of g links
UEdges(g) ==
    {Und(p) : p \in {q \in NodeSet(g) \X NodeSet(g) : q[2] \in Range(g.adj[q[1]])}}

AfterDiffNodes == {"node_color", "error_edge", "edge_color", "figure", "draw",
                   "annotate", "output", "clear"}
AfterColorNodes == AfterDiffNodes \ {"node_color"}
AfterDiffEdges == AfterColorNodes \ {"error_edge"}
AfterColorEdges == AfterDiffEdges \ {"edge_color"}
AfterDraw == {"annotate", "output", "clear"}

----------------------------------------------------------------------------
(* Properties of the defect and colour computation (SpecDiff) *)

\* C4: the defect node set is exactly the nodes of T that are not nodes of G,
\* the defect edge set exactly the edges of T that are not edges of G (each
\* once), so both are subsets of T's; the spec's example (ideal path 1-2-3,
\* actual nodes 1 and 3, no edges) gives {2} and {(1,2),(2,3)}.
C4_DefectSets ==
    LET missing == UEdges(T) \ UEdges(G)
        found == {Und(e) : e \in error_edge}
    IN  /\ pc \in AfterDiffNodes =>
              /\ error_node = NodeSet(T) \ NodeSet(G)
              /\ error_node \subseteq NodeSet(T)
        /\ pc \in AfterDiffEdges =>
              /\ found = missing
              /\ Cardinality(error_edge) = Cardinality(missing)
              /\ \A e \in error_edge : Und(e) \in UEdges(T)
              /\ (NodeSet(T) = {1, 2, 3} /\ UEdges(T) = {{1, 2}, {2, 3}}
                    /\ NodeSet(G) = {1, 3} /\ UEdges(G) = {})
                 => (error_node = {2} /\ found = {{1, 2}, {2, 3}})

C4_Witness ==
    /\ pc = "edge_color"
    /\ T = ExampleLattice
    /\ NodeSet(G) = {1, 3}
    /\ UEdges(G) = {}
    /\ error_node = {2}
    /\ error_edge = {<<1, 2>>, <<2, 3>>}

\* C5: an ideal edge the actual graph lists in either orientation is no defect
\* edge and is coloured ok_color; an ideal edge is coloured ng_color only when
\* the actual graph lists neither orientation.
C5_OrientationInvariance ==
    pc \in AfterColorEdges =>
        \A i \in DOMAIN EdgeIter(T) :
            LET e == EdgeIter(T)[i]
                listed == {e, <<e[2], e[1]>>} \cap Range(EdgeIter(G)) # {}
            IN  /\ listed => (e \notin error_edge /\ edge_color[i] = ok_color)
                /\ edge_color[i] = ng_color => ~listed

C5_Witness ==
    /\ pc = "figure"
    /\ \E i \in DOMAIN EdgeIter(T) :
          LET e == EdgeIter(T)[i]
          IN  /\ <<e[2], e[1]>> \in Range(EdgeIter(G))
              /\ e \notin Range(EdgeIter(G))
              /\ e \notin error_edge
              /\ edge_color[i] = ok_color

\* C6: node_color has one entry per ideal node and edge_color one per ideal
\* edge; entry i is ng_color exactly when the i-th ideal node (edge), in the
\* order the draw routine consumes, is missing from the actual graph; with
\* nothing missing every entry is ok_color.
C6_OrderPreservation ==
    LET working == UEdges(G)
        ideal == EdgeIter(T)
        NodeTint(i) == IF T.node[i] \in NodeSet(G) THEN ok_color ELSE ng_color
        EdgeTint(i) == IF Und(ideal[i]) \in working THEN ok_color ELSE ng_color
    IN  /\ pc \in AfterColorNodes =>
              /\ Len(node_color) = Cardinality(NodeSet(T))
              /\ \A i \in 1 .. Len(node_color) : node_color[i] = NodeTint(i)
        /\ pc \in AfterColorEdges =>
              /\ Len(edge_color) = Cardinality(UEdges(T))
              /\ \A i \in 1 .. Len(edge_color) : edge_color[i] = EdgeTint(i)
              /\ (NodeSet(T) \subseteq NodeSet(G) /\ UEdges(T) \subseteq working)
                 => (/\ \A i \in DOMAIN node_color : node_color[i] = ok_color
                     /\ \A i \in DOMAIN edge_color : edge_color[i] = ok_color)
        /\ pc \in AfterDraw =>
              LET d == Current.drawn[Len(Current.drawn)]
              IN  /\ Len(d.nodes) = Len(T.node)
                  /\ \A i \in DOMAIN d.nodes : d.nodes[i] = <<T.node[i], NodeTint(i)>>
                  /\ Len(d.edges) = Len(ideal)
                  /\ \A i \in DOMAIN d.edges : d.edges[i] = <<ideal[i], EdgeTint(i)>>

\* an ideal graph whose nodes are not enumerated in increasing order, a defect
\* in the middle of the enumeration
C6_Witness ==
    /\ pc = "annotate"
    /\ Len(T.node) = 3
    /\ T.node[1] > T.node[2]
    /\ node_color = <<ok_color, ng_color, ok_color>>
    /\ Len(edge_color) = 2
    /\ edge_color[1] # edge_color[2]

\* C7: an ideal edge with a defect endpoint is a defect edge, and coloured
\* ng_color, exactly when the edge itself is absent from the actual graph.
C7_NoSynthesizedEdgeDefects ==
    pc \in AfterColorEdges =>
        \A i \in DOMAIN EdgeIter(T) :
            LET e == EdgeIter(T)[i]
            IN  (e[1] \in error_node \/ e[2] \in error_node) =>
                    /\ e \in error_edge <=> Und(e) \notin UEdges(G)
                    /\ edge_color[i] = ng_color <=> Und(e) \notin UEdges(G)

C7_Witness ==
    /\ pc = "figure"
    /\ \E i \in DOMAIN EdgeIter(T) :
          LET e == EdgeIter(T)[i]
          IN  /\ e[1] \in error_node
              /\ e[2] \notin error_node
              /\ Und(e) \notin UEdges(G)
              /\ edge_color[i] = ng_color

\* the actual graph g with every node and edge the ideal graph t lacks removed
IdealPart(g, t) ==
    MkGraph(SortedSeq(NodeSet(g) \cap NodeSet(t)),
            SortedPairs({e \in Range(EdgeIter(t)) : Und(e) \in UEdges(g)}))

HasExtras(g, t) ==
    /\ NodeSet(g) \ NodeSet(t) # {}
    /\ \E x \in UEdges(g) : x \ NodeSet(t) # {}

\* C10: the colour lists depend only on which ideal nodes and ideal edges the
\* actual graph contains: they equal the lists computed for the actual graph
\* stripped of everything the ideal graph lacks (the same graph for any two
\* actual graphs that agree on the ideal elements), and no error is raised.
C10_ExtrasIgnored ==
    LET stripped == IdealPart(G, T)
    IN  /\ pc \in AfterColorNodes =>
              node_color = ColorList(NodeIter(T), NodesMinus(T, stripped),
                                     ng_color, ok_color)
        /\ pc \in AfterColorEdges =>
              edge_color = ColorList(EdgeIter(T), EdgesMinus(T, stripped),
                                     ng_color, ok_color)
        /\ pc \in AfterDiffNodes => result = "running"

C10_Witness ==
    /\ pc = "figure"
    /\ HasExtras(G, T)
    /\ \E i \in DOMAIN node_color : node_color[i] = ng_color
    /\ \E i \in DOMAIN node_color : node_color[i] = ok_color
    /\ edge_color # <<>>

----------------------------------------------------------------------------
(* Properties of the invocation as a whole (Spec) *)

OutputCalls == {"show", "makedirs", "savefig"}

\* C1 (as claimed): whenever an invocation has returned, by any exit, no open
\* figure holds drawing state, so no later invocation finds any.
C1_SurfaceClearedOnEveryExit ==
    pc = "idle" => \A i \in DOMAIN figs : figs[i] = BlankFigure

\* C2: "chimera" and "pegasus" pass the selection step; any other topology
\* type ends the call there with the unsupported-topology ValueError, before
\* any figure is created, anything is drawn, shown or written.
C2_TopologyGate ==
    /\ [](/\ pc = "select" => effects = <<>>
          /\ result = TopologyError =>
                /\ pc = "idle"
                /\ sampler.type \notin {"chimera", "pegasus"}
                /\ effects = <<>>
          /\ pc \notin {"idle", "select"} =>
                /\ sampler.type \in {"chimera", "pegasus"}
                /\ result = "running"
                /\ graph_func # Unset
                /\ draw_func # Unset)
    /\ [][pc = "idle" => (figs' = figs /\ dirs' = dirs /\ files' = files)]_vars
    /\ [][pc = "select" =>
            IF sampler.type \in {"chimera", "pegasus"}
            THEN pc' = "graphs" /\ result' = "running"
            ELSE /\ pc' = "idle"
                 /\ result' = TopologyError
                 /\ figs' = figs /\ dirs' = dirs /\ files' = files
                 /\ effects' = <<>>]_vars

C2_Witness ==
    /\ pc = "idle"
    /\ result = TopologyError
    /\ sampler.type = "zephyr"
    /\ calls = 2
    /\ files # {}

\* C3: with draw_rectangle and chip_id "DW_2000Q_6" the rectangle is added and
\* the call goes on; with draw_rectangle and any other chip_id the call ends
\* with the chip_id ValueError and neither saves nor shows; without
\* draw_rectangle no rectangle is added and nothing fails, whatever the chip_id.
C3_RegionGate ==
    /\ [][pc = "annotate" =>
            /\ (draw_rectangle /\ sampler.chip_id = "DW_2000Q_6") =>
                  /\ pc' = "output"
                  /\ result' = "running"
                  /\ figs'[Len(figs')].patches = <<"Rectangle">>
                  /\ figs'[Len(figs')].drawn = Current.drawn
            /\ (draw_rectangle /\ sampler.chip_id # "DW_2000Q_6") =>
                  /\ pc' = "idle"
                  /\ result' = ChipError
                  /\ effects' = effects
                  /\ dirs' = dirs /\ files' = files
            /\ ~draw_rectangle =>
                  /\ pc' = "output"
                  /\ result' = "running"
                  /\ figs' = figs]_vars
    /\ [](/\ result = ChipError =>
                /\ pc = "idle"
                /\ draw_rectangle
                /\ sampler.chip_id # "DW_2000Q_6"
                /\ Range(effects) \cap OutputCalls = {}
          /\ ~draw_rectangle =>
                /\ result # ChipError
                /\ "add_patch" \notin Range(effects)
          /\ (result = "returned" /\ draw_rectangle) =>
                /\ sampler.chip_id = "DW_2000Q_6"
                /\ "add_patch" \in Range(effects))

C3_Witness ==
    /\ result = ChipError
    /\ sampler.type \in {"chimera", "pegasus"}
    /\ out_path # NoPath
    /\ out_path \notin files

\* C8: a call that returns normally made exactly one output action, chosen by
\* out_path: None shows the figure and creates no file or directory; a path
\* creates its parent directory if absent, then saves to it, and shows
\* nothing. Only plt.clf() follows the output action.
C8_SingleOutput ==
    /\ [](result = "returned" =>
            LET outs == SelectSeq(effects, LAMBDA x : x \in OutputCalls)
                n == Len(effects)
            IN  /\ IF out_path = NoPath
                   THEN outs = <<"show">>
                   ELSE /\ outs = <<"makedirs", "savefig">>
                        /\ SubSeq(out_path, 1, Len(out_path) - 1) \in dirs
                        /\ out_path \in files
                /\ effects[n] = "clf"
                /\ effects[n - 1] \in {"show", "savefig"})
    /\ [][pc = "output" =>
            /\ pc' = "clear"
            /\ IF out_path = NoPath
               THEN dirs' = dirs /\ files' = files
               ELSE /\ dirs \subseteq dirs'
                    /\ SubSeq(out_path, 1, Len(out_path) - 1) \in dirs'
                    /\ files' = files \cup {out_path}
                    /\ figs' = figs]_vars
    /\ [][pc # "output" => (dirs' = dirs /\ files' = files)]_vars
    /\ [][(pc = "output" \/ pc = "clear") =>
            (locals' = locals /\ pc' \in {"clear", "idle"})]_vars

C8_Witness ==
    /\ result = "returned"
    /\ out_path = <<"out", "fig.png">>
    /\ calls = 2
    /\ <<"fig.png">> \notin files

\* the component a position of the code belongs to
Phase(p) ==
    CASE p = "select" -> 1
      [] p \in {"graphs", "error_node", "error_edge"} -> 2
      [] p \in {"node_color", "edge_color"} -> 3
      [] p \in {"figure", "draw"} -> 4
      [] p = "annotate" -> 5
      [] p = "output" -> 6
      [] p = "clear" -> 7
      [] OTHER -> 0

BothErrorConditions ==
    /\ sampler.type \notin {"chimera", "pegasus"}
    /\ draw_rectangle
    /\ sampler.chip_id # "DW_2000Q_6"

ErrorExits ==
    /\ [][(pc # "idle" /\ pc' = "idle") =>
            \/ pc = "clear" /\ result' = "returned"
            \/ pc = "select" /\ result' = TopologyError
            \/ pc = "annotate" /\ result' = ChipError]_vars
    /\ []((pc = "idle" /\ calls > 0 /\ BothErrorConditions) => result = TopologyError)

\* C9 (as claimed): the steps run in the order Select, Diff, Color, Draw,
\* Annotate, Output, Clear, each once and none before the previous one is
\* finished; the only departures are the two error exits, and the
\* unsupported-topology error wins when both error conditions hold.
C9_LinearPhases ==
    /\ [][(pc # "idle" /\ pc' # "idle") =>
            Phase(pc') \in {Phase(pc), Phase(pc) + 1}]_vars
    /\ ErrorExits

\* C9 (amended): Select, then node defects, node colours, edge defects, edge
\* colours (Diff and Color alternate, once for the nodes and once for the
\* edges), then Draw, Annotate, Output, Clear, each position once and in that
\* order; the only departures are the two error exits, and the
\* unsupported-topology error wins when both error conditions hold.
C9_StepOrder ==
    /\ [][(pc # "idle" /\ pc' # "idle") =>
            <<pc, pc'>> \in
                { <<"select", "graphs">>, <<"graphs", "error_node">>,
                  <<"error_node", "node_color">>, <<"node_color", "error_edge">>,
                  <<"error_edge", "edge_color">>, <<"edge_color", "figure">>,
                  <<"figure", "draw">>, <<"draw", "annotate">>,
                  <<"annotate", "output">>, <<"output", "clear">> }]_vars
    /\ [][pc = "idle" => pc' = "select"]_vars
    /\ ErrorExits

C9_Witness ==
    /\ pc = "idle"
    /\ calls = 2
    /\ BothErrorConditions
    /\ result = TopologyError
    /\ figs # <<>>

====
